---- MODULE Spec2Model ----
(***************************************************************************)
(* Entity simulation core of CloseAirCombat                                *)
(* (envs/JSBSim/core/simulatior.py): the property access of                *)
(* AircraftSimulator against its JSBSim property store, its reload() and   *)
(* run() against the flight dynamics model, and the guidance state machine *)
(* of MissileSimulator; the rule-based missile launch of                   *)
(* SingleCombatWithMissileTask (envs/JSBSim/tasks); and the heading check  *)
(* of UnreachHeading (envs/JSBSim/termination_conditions).                 *)
(*                                                                         *)
(* Numbers.  The code computes in IEEE doubles; the model computes in      *)
(* integers.  Lengths are metres, the flight clock is counted in ticks of  *)
(* dt = 1/FREQ seconds, the mass is kept multiplied by FREQ so that one    *)
(* integration step removes exactly dm, velocities are metres per tick     *)
(* and angles are quarter turns, for which sin and cos are exact.          *)
(***************************************************************************)
EXTENDS Integers, Sequences, FiniteSets, TLC

VARIABLES
    \* ---- AircraftSimulator property access ----
    jsbsim_exec,        \* the FDM property store: name_jsbsim -> value
    live,               \* the quantity an update hook recomputes from
    call,               \* the last get/set_property_value call and its outcome
    \* ---- MissileSimulator ----
    _status,            \* "", "Launched", "Hit", "Inactive"
    _t,                 \* flight clock, in ticks of dt
    _m,                 \* mass * FREQ
    _position,          \* (north, east, up)
    _geodetic,          \* (lon, lat, alt)
    _velocity,          \* (v_north, v_east, v_up), per tick
    _poseture,          \* (roll, pitch, yaw), quarter turns
    nan,                \* 0: state finite, 1: velocity/attitude NaN, 2: position too
    origin,             \* (lon0, lat0, alt0) taken from the parent
    render_explosion,   \* render-once flag
    target_aircraft,    \* [pos, vel] of the target aircraft
    last,               \* the last run()/log()/launch() call and its outcome
    hist,               \* history of the flight, for the properties only
    \* ---- AircraftSimulator reload() and run() ----
    fdm,                \* the FGFDMExec handle: its store, solves, engines
    aircraft,           \* cached state, init_state and origin of the aircraft
    lastA,              \* the last reload()/run() call and its outcome
    \* ---- SingleCombatWithMissileTask ----
    remaining_missiles, \* agent_id -> missiles left
    lock_duration,      \* agent_id -> the deque of lock flags
    env,                \* configuration and temporary simulators of the env
    lastT,              \* the last step()/reset() call and its outcome
    histT,              \* history of the episode, for the properties only
    \* ---- UnreachHeading ----
    agent,              \* the properties of the aircraft the check reads and writes
    heading_turn_counts, \* env.heading_turn_counts
    check_interval,     \* self.check_interval
    lastH               \* the last get_termination call and its outcome

propVars == <<jsbsim_exec, live, call>>
missileVars == <<_status, _t, _m, _position, _geodetic, _velocity, _poseture,
                 nan, origin, render_explosion, target_aircraft, last, hist>>
aircraftVars == <<fdm, aircraft, lastA>>
taskVars == <<remaining_missiles, lock_duration, env, lastT, histT>>
headingVars == <<agent, heading_turn_counts, check_interval, lastH>>
vars == <<jsbsim_exec, live, call, _status, _t, _m, _position, _geodetic,
          _velocity, _poseture, nan, origin, render_explosion,
          target_aircraft, last, hist, fdm, aircraft, lastA,
          remaining_missiles, lock_duration, env, lastT, histT,
          agent, heading_turn_counts, check_interval, lastH>>

-----------------------------------------------------------------------------
(* Bounds *)

MaxVal == 2             \* property values range over 0..MaxVal
MaxTicks == 364         \* run() is called at most MaxTicks times on a missile
MaxRuns == 3            \* run() is called at most MaxRuns times on one FDM handle
MaxReloads == 3         \* an aircraft is reloaded at most MaxReloads - 1 times
MaxEngines == 2         \* an aircraft model has 1..MaxEngines engines
MaxMissiles == 2        \* an agent is configured with 0..MaxMissiles missiles
MaxTime == 8            \* the simulation time of an episode is at most MaxTime

Val == 0..MaxVal

-----------------------------------------------------------------------------
(* Property catalog (core/catalog.py).  A Property is the record that     *)
(* simulatior.py reads: name_jsbsim, min, max, access, update.  The update *)
(* hook is an opaque callable; here it recomputes the store entry named by *)
(* the field update from the live quantity.                                *)

NoHook == "-"

Properties ==
    { [name_jsbsim |-> "sim-time", min |-> 0, max |-> MaxVal, access |-> "R",
       update |-> "sim-time"],
      [name_jsbsim |-> "delta",    min |-> 0, max |-> MaxVal, access |-> "R",
       update |-> NoHook],
      [name_jsbsim |-> "tgt",      min |-> 1, max |-> MaxVal - 1, access |-> "RW",
       update |-> "delta"],
      [name_jsbsim |-> "cmd",      min |-> 1, max |-> MaxVal, access |-> "W",
       update |-> "delta"],
      [name_jsbsim |-> "ic",       min |-> 0, max |-> MaxVal - 1, access |-> "RW",
       update |-> NoHook] }

Names == { p.name_jsbsim : p \in Properties }

NotAProperty == [name_jsbsim |-> "str", min |-> 0, max |-> 0, access |-> "",
                 update |-> NoHook]

isProperty(prop) == prop \in Properties

\* "W" in prop.access
HasW(access) == access \in {"W", "RW"}

\* prop.update(self)
RunHook(store, prop) == [store EXCEPT ![prop.update] = live]

NoCall == [op |-> "none", prop |-> "-", value |-> 0, wrote |-> -1,
           hooks |-> 0, hookFirst |-> FALSE, ret |-> -1, err |-> "none"]

\* the upper bound forgotten
Clamp_NoUpper(prop, value) ==
    IF value < prop.min THEN prop.min ELSE value

\* value clamped into [prop.min, prop.max]
Clamp(prop, value) ==
    IF value < prop.min THEN prop.min
    ELSE IF value > prop.max THEN prop.max
    ELSE value

set_property_value(prop, value) ==
    IF isProperty(prop)
    THEN LET v == Clamp(prop, value)
             written == [jsbsim_exec EXCEPT ![prop.name_jsbsim] = v]
             hook == HasW(prop.access) /\ prop.update # NoHook
         IN /\ jsbsim_exec' = IF hook THEN RunHook(written, prop) ELSE written
            /\ call' = [op |-> "set", prop |-> prop.name_jsbsim, value |-> value,
                        wrote |-> v, hooks |-> IF hook THEN 1 ELSE 0,
                        hookFirst |-> FALSE, ret |-> -1, err |-> "none"]
    ELSE /\ jsbsim_exec' = jsbsim_exec
         /\ call' = [op |-> "set", prop |-> prop.name_jsbsim, value |-> value,
                     wrote |-> -1, hooks |-> 0, hookFirst |-> FALSE,
                     ret |-> -1, err |-> "ValueError"]

get_property_value(prop) ==
    IF isProperty(prop)
    THEN LET hook == prop.access = "R" /\ prop.update # NoHook
             store == IF hook THEN RunHook(jsbsim_exec, prop) ELSE jsbsim_exec
         IN /\ jsbsim_exec' = store
            /\ call' = [op |-> "get", prop |-> prop.name_jsbsim, value |-> 0,
                        wrote |-> -1, hooks |-> IF hook THEN 1 ELSE 0,
                        hookFirst |-> hook, ret |-> store[prop.name_jsbsim],
                        err |-> "none"]
    ELSE /\ jsbsim_exec' = jsbsim_exec
         /\ call' = [op |-> "get", prop |-> prop.name_jsbsim, value |-> 0,
                     wrote |-> -1, hooks |-> 0, hookFirst |-> FALSE,
                     ret |-> -1, err |-> "ValueError"]

SetProperty ==
    /\ \E prop \in Properties \cup {NotAProperty}, value \in Val :
          set_property_value(prop, value)
    /\ UNCHANGED <<live, missileVars, aircraftVars, taskVars, headingVars>>

GetProperty ==
    /\ \E prop \in Properties \cup {NotAProperty} : get_property_value(prop)
    /\ UNCHANGED <<live, missileVars, aircraftVars, taskVars, headingVars>>

\* the simulation moves on: the quantity behind the derived properties changes
SimAdvance ==
    /\ \E v \in Val : v # live /\ live' = v
    /\ UNCHANGED <<jsbsim_exec, call, missileVars, aircraftVars, taskVars, headingVars>>

-----------------------------------------------------------------------------
(* MissileSimulator: parameters set by __init__ *)

FREQ == 12              \* dt = 1 / FREQ
t_max == 30             \* time limitation, s
m0 == 150               \* mass, kg
dm == 4                 \* mass loss rate, kg/s
Rc == 300               \* available distance, m
n_max == 40             \* max overload

Abs(x) == IF x < 0 THEN -x ELSE x
Sgn(x) == IF x < 0 THEN -1 ELSE IF x > 0 THEN 1 ELSE 0
Add(a, b) == <<a[1] + b[1], a[2] + b[2], a[3] + b[3]>>
Zeros == <<0, 0, 0>>

\* np.linalg.norm of a vector along one axis (every velocity of the model is)
Norm(a) == Abs(a[1]) + Abs(a[2]) + Abs(a[3])

\* cos and sin of q quarter turns
Cos(q) == <<1, 0, -1, 0>>[(q % 4) + 1]
Sin(q) == <<0, 1, 0, -1>>[(q % 4) + 1]

\* np.clip(x, lo, hi)
Clip(x, lo, hi) == IF x < lo THEN lo ELSE IF x > hi THEN hi ELSE x

\* utils.NEU2LLA, as a flat earth about the origin:
\* (north, east, up) -> (lon, lat, alt)
NEU2LLA(neu, o) == <<o[1] + neu[2], o[2] + neu[1], o[3] + neu[3]>>

\* squared distance between two points
Dist2(a, b) ==
    (a[1] - b[1]) * (a[1] - b[1]) + (a[2] - b[2]) * (a[2] - b[2])
        + (a[3] - b[3]) * (a[3] - b[3])

-----------------------------------------------------------------------------
(* Scenario inputs: the launching aircraft at the moment of launch, and    *)
(* the target aircraft, which flies straight at constant velocity and      *)
(* advances one step before each step of the missile.                      *)

Origin == <<120, 60, 0>>

Parent(pos, vel, rpy) ==
    [geodetic |-> NEU2LLA(pos, Origin), position |-> pos, velocity |-> vel,
     rpy |-> rpy, origin |-> Origin]

Parents ==
    { Parent(<<0, 0, 0>>, <<2, 0, 0>>, <<1, 0, 0>>),     \* north, banked
      Parent(<<0, 0, 0>>, <<0, 2, 0>>, <<0, 0, 1>>),     \* east
      Parent(<<0, 0, 100>>, <<2, 0, 0>>, <<0, 1, 0>>) }  \* north, nose up

Targets ==
    { [pos |-> <<3000, 1000, 0>>, vel |-> <<0, 0, 0>>],    \* out of reach
      [pos |-> <<1000, 0, 0>>,    vel |-> <<-2, 0, 0>>],   \* head-on
      [pos |-> <<698, 0, 0>>,     vel |-> <<-2, 0, 0>>],   \* head-on, passes Rc exactly
      [pos |-> <<200, -400, 0>>,  vel |-> <<0, 8, 0>>],    \* crossing
      [pos |-> <<100, 0, 0>>,     vel |-> <<0, 0, 0>>],    \* in range at launch
      [pos |-> <<0, 0, 400>>,     vel |-> <<0, 0, 0>>],    \* overhead
      [pos |-> <<250, -15200, 0>>, vel |-> <<0, 40, 0>>] } \* arrives at t_max

\* the target aircraft after one more step of its own
TargetStep(tgt) == [tgt EXCEPT !.pos = Add(tgt.pos, tgt.vel)]

-----------------------------------------------------------------------------
(* MissileSimulator operations *)

\* no aircraft: the parent of a call that is not launch()
NoParent == [geodetic |-> Zeros, position |-> Zeros, velocity |-> Zeros,
             rpy |-> Zeros, origin |-> Zeros]

\* parent: the aircraft handed to launch(); pos0, vel0: position and
\* velocity held when run() was entered
NoLast == [op |-> "none", err |-> "none", out |-> "-", status |-> "",
           flag |-> FALSE, hit |-> FALSE, stepped |-> FALSE,
           parent |-> NoParent, pos0 |-> Zeros, vel0 |-> Zeros]

NoHist == [runs |-> 0, quiet |-> 0, firstInside |-> 0, firstHit |-> 0,
           closing |-> FALSE, d2 |-> 0, hitLogs |-> 0]

\* the action _guidance returns: the clipped overloads (ny, nz), or NaN
NaNAction == [isnan |-> TRUE, ny |-> 0, nz |-> 0]

\* the kill radius taken inclusive
hit_flag_le(pos, tgt, posnan) ==
    ~posnan /\ Dist2(pos, tgt.pos) <= Rc * Rc

\* hit_flag = Rxyz < Rc, Rxyz = norm([x_m - x_t, y_m - y_t, z_t - z_m]);
\* a NaN position compares False
hit_flag(pos, tgt, posnan) ==
    LET Rxyz2 == (pos[1] - tgt.pos[1]) * (pos[1] - tgt.pos[1])
                 + (pos[2] - tgt.pos[2]) * (pos[2] - tgt.pos[2])
                 + (tgt.pos[3] - pos[3]) * (tgt.pos[3] - pos[3])
    IN  ~posnan /\ Rxyz2 < Rc * Rc

\* Proportional navigation.  The overloads are kept as the signs of the
\* line-of-sight rates: one unit of rate turns the missile a quarter turn
\* per tick.  0/0 (missile and target on one vertical, or no speed) and any
\* NaN operand give NaN.
_guidance(pos, vel, tgt, n) ==
    LET x_m == pos[1]  y_m == pos[2]  z_m == pos[3]
        dx_m == vel[1] dy_m == vel[2] dz_m == vel[3]
        v_m == Norm(vel)
        cos_theta_m == IF dz_m = 0 THEN 1 ELSE 0
        x_t == tgt.pos[1]  y_t == tgt.pos[2]  z_t == tgt.pos[3]
        dx_t == tgt.vel[1] dy_t == tgt.vel[2] dz_t == tgt.vel[3]
        Rxy2 == (x_m - x_t) * (x_m - x_t) + (y_m - y_t) * (y_m - y_t)
        dbeta == (dy_t - dy_m) * (x_t - x_m) - (dx_t - dx_m) * (y_t - y_m)
        deps == (dz_t - dz_m) * Rxy2 - (z_t - z_m) *
                   ((x_t - x_m) * (dx_t - dx_m) + (y_t - y_m) * (dy_t - dy_m))
        ny == cos_theta_m * Sgn(dbeta)
        nz == Sgn(deps) + cos_theta_m
    IN  [action |-> IF n > 0 \/ v_m = 0 \/ Rxy2 = 0 THEN NaNAction
                    ELSE [isnan |-> FALSE, ny |-> Clip(ny, -n_max, n_max),
                          nz |-> Clip(nz, -n_max, n_max)],
         is_hit |-> hit_flag(pos, tgt, n = 2)]

\* no time limit
is_timeout_never(t) == FALSE

\* the time limit taken inclusive
is_timeout_ge(t) == t >= t_max * FREQ

\* self._t > self._t_max, the clock in ticks
is_timeout(t) == t > t_max * FREQ

\* the mass loss not scaled by dt
burn_unscaled(m) == m - dm * FREQ

\* self._m -= self.dt * self._dm, the mass times FREQ
burn(m) == m - dm

\* the step with the velocity and attitude integrated before the position
_state_trans_velocity_first(action) ==
    LET v == Norm(_velocity)
        theta == _poseture[2]
        phi == _poseture[3]
        dphi == action.ny * Cos(theta)
        dtheta == action.nz - Cos(theta)
        theta1 == theta + dtheta
        phi1 == phi + dphi
        velocity == IF nan > 0 \/ action.isnan THEN _velocity
                    ELSE <<v * Cos(theta1) * Cos(phi1),
                           v * Cos(theta1) * Sin(phi1),
                           v * Sin(theta1)>>
        position == Add(_position, velocity)
    IN  /\ _position' = position
        /\ _geodetic' = NEU2LLA(position, origin)
        /\ nan' = IF nan > 0 THEN 2 ELSE IF action.isnan THEN 1 ELSE 0
        /\ _velocity' = velocity
        /\ _poseture' = IF nan > 0 \/ action.isnan THEN _poseture
                        ELSE <<0, theta1, phi1>>
        /\ _m' = burn(_m)

\* One integration step: position from the velocity before the step, then
\* geodetic, then pitch and yaw from the overloads, velocity and attitude
\* from the new angles, then the mass.  The speed |v| is kept: thrust, drag
\* and gravity (nx, dv) act on the speed alone.
_state_trans(action) ==
    LET position == Add(_position, _velocity)
        v == Norm(_velocity)
        theta == _poseture[2]
        phi == _poseture[3]
        dphi == action.ny * Cos(theta)
        dtheta == action.nz - Cos(theta)
        theta1 == theta + dtheta
        phi1 == phi + dphi
    IN  /\ _position' = position
        /\ _geodetic' = NEU2LLA(position, origin)
        /\ nan' = IF nan > 0 THEN 2 ELSE IF action.isnan THEN 1 ELSE 0
        /\ _velocity' = IF nan > 0 \/ action.isnan THEN _velocity
                        ELSE <<v * Cos(theta1) * Cos(phi1),
                               v * Cos(theta1) * Sin(phi1),
                               v * Sin(theta1)>>
        /\ _poseture' = IF nan > 0 \/ action.isnan THEN _poseture
                        ELSE <<0, theta1, phi1>>
        /\ _m' = burn(_m)

\* launch() without self._poseture[0] = 0
launch_keep_roll(parent) ==
    /\ _geodetic' = parent.geodetic
    /\ _position' = parent.position
    /\ _velocity' = parent.velocity
    /\ _poseture' = parent.rpy
    /\ origin' = parent.origin
    /\ nan' = 0
    /\ _t' = 0
    /\ _m' = m0 * FREQ
    /\ _status' = "Launched"

launch(parent) ==
    /\ _geodetic' = parent.geodetic
    /\ _position' = parent.position
    /\ _velocity' = parent.velocity
    /\ _poseture' = [parent.rpy EXCEPT ![1] = 0]
    /\ origin' = parent.origin
    /\ nan' = 0
    /\ _t' = 0
    /\ _m' = m0 * FREQ
    /\ _status' = "Launched"

\* true squared distance missile - target, for the history only
Inside(pos, tgt, posnan) == ~posnan /\ Dist2(pos, tgt.pos) < Rc * Rc

\* MissileSimulator(...); missile.launch(parent): a missile is launched once
Launch ==
    /\ _status = ""
    /\ \E parent \in Parents :
          /\ launch(parent)
          /\ last' = [NoLast EXCEPT !.op = "launch", !.status = _status,
                                    !.flag = render_explosion,
                                    !.parent = parent]
    /\ hist' = [NoHist EXCEPT
                  !.d2 = Dist2(_position', target_aircraft.pos),
                  !.closing = Dist2(_position', target_aircraft.pos) > Rc * Rc]
    /\ UNCHANGED <<render_explosion, target_aircraft, propVars, aircraftVars, taskVars, headingVars>>

\* run() before launch(): self._t does not exist yet
RunUnlaunched ==
    /\ _status = ""
    /\ last' = [NoLast EXCEPT !.op = "run", !.err = "AttributeError",
                              !.status = _status, !.flag = render_explosion]
    /\ UNCHANGED <<_status, _t, _m, _position, _geodetic, _velocity, _poseture,
                   nan, origin, render_explosion, target_aircraft, hist, propVars,
                   aircraftVars, taskVars, headingVars>>

\* one simulation tick: the target aircraft has advanced, then missile.run()
Run ==
    /\ _status # ""
    /\ hist.runs < MaxTicks
    /\ LET tgt == TargetStep(target_aircraft)
           t == _t + 1
           g == _guidance(_position, _velocity, tgt, nan)
           timeout == is_timeout(t)
           inside == Inside(_position, tgt, nan = 2)
           d2 == Dist2(_position, tgt.pos)
       IN  /\ target_aircraft' = tgt
           /\ _t' = t
           /\ IF g.is_hit
              THEN /\ _status' = "Hit"
                   /\ UNCHANGED <<_m, _position, _geodetic, _velocity,
                                  _poseture, nan>>
              ELSE IF timeout
              THEN /\ _status' = "Inactive"
                   /\ UNCHANGED <<_m, _position, _geodetic, _velocity,
                                  _poseture, nan>>
              ELSE /\ _state_trans(g.action)
                   /\ UNCHANGED _status
           /\ last' = [NoLast EXCEPT !.op = "run", !.status = _status,
                          !.flag = render_explosion, !.hit = g.is_hit,
                          !.stepped = ~g.is_hit /\ ~timeout,
                          !.pos0 = _position, !.vel0 = _velocity]
           /\ hist' = [runs |-> hist.runs + 1,
                       quiet |-> IF ~inside /\ ~timeout THEN hist.quiet + 1
                                 ELSE hist.quiet,
                       firstInside |-> IF hist.firstInside = 0 /\ inside
                                       THEN hist.runs + 1 ELSE hist.firstInside,
                       firstHit |-> IF hist.firstHit = 0 /\ _status' = "Hit"
                                    THEN hist.runs + 1 ELSE hist.firstHit,
                       closing |-> hist.closing /\ nan < 2 /\ d2 <= hist.d2,
                       d2 |-> d2,
                       hitLogs |-> IF _status' = "Hit" /\ _status = "Hit"
                                   THEN hist.hitLogs ELSE 0]
    /\ UNCHANGED <<origin, render_explosion, propVars, aircraftVars, taskVars, headingVars>>

\* (self._status == "Hit" or "Inactive"): the operand "Inactive" is a
\* non-empty string
HitOrInactive(status) == status = "Hit" \/ TRUE

\* log(): the state line, or the removal marker plus the explosion line
Log ==
    /\ IF _status = "Launched"
       THEN /\ last' = [NoLast EXCEPT !.op = "log", !.out = "state",
                           !.status = _status, !.flag = render_explosion]
            /\ UNCHANGED render_explosion
       ELSE IF HitOrInactive(_status) /\ ~render_explosion
       THEN /\ render_explosion' = TRUE
            /\ last' = [NoLast EXCEPT !.op = "log", !.out = "explosion",
                           !.status = _status, !.flag = render_explosion]
       ELSE /\ last' = [NoLast EXCEPT !.op = "log", !.err = "UnboundLocalError",
                           !.status = _status, !.flag = render_explosion]
            /\ UNCHANGED render_explosion
    /\ hist' = [hist EXCEPT !.hitLogs = IF _status = "Hit" /\ @ < 2
                                        THEN @ + 1 ELSE @]
    /\ UNCHANGED <<_status, _t, _m, _position, _geodetic, _velocity, _poseture,
                   nan, origin, target_aircraft, propVars, aircraftVars, taskVars, headingVars>>

-----------------------------------------------------------------------------
(* AircraftSimulator: reload() and run() against the flight dynamics model. *)
(* The FDM handle is a property store with an initial-condition solve, an   *)
(* integration step and engines; the store holds the ic_* properties and    *)
(* the position/attitude/velocity properties the aircraft reads back.       *)
(* Degrees, feet and metres are integers; angles read back are quarter      *)
(* turns, as for the missile.                                               *)

\* utils.LLA2NEU, the inverse of NEU2LLA:
\* (lon, lat, alt) -> (north, east, up)
LLA2NEU(lla, o) == <<lla[2] - o[2], lla[1] - o[1], lla[3] - o[3]>>

\* default_condition of clear_defalut_condition, in its iteration order
default_condition ==
    << <<"ic_long_gc_deg", 120>>, <<"ic_lat_geod_deg", 60>>,
       <<"ic_h_sl_ft", 20000>>, <<"ic_psi_true_deg", 0>>,
       <<"ic_u_fps", 800>>, <<"ic_v_fps", 0>>, <<"ic_w_fps", 0>>,
       <<"ic_p_rad_sec", 0>>, <<"ic_q_rad_sec", 0>>, <<"ic_r_rad_sec", 0>>,
       <<"ic_roc_fpm", 0>>, <<"ic_terrain_elevation_ft", 0>> >>

ICKeys == { default_condition[i][1] : i \in DOMAIN default_condition }

StateKeys ==
    { "position_long_gc_deg", "position_lat_geod_deg", "position_h_sl_m",
      "attitude_roll_rad", "attitude_pitch_rad", "attitude_heading_true_rad",
      "velocities_v_north_mps", "velocities_v_east_mps",
      "velocities_v_down_mps" }

\* Catalog[key]: the Property of an initial condition, with its range
Catalog(key) ==
    LET range == CASE key = "ic_long_gc_deg" -> <<-180, 180>>
                   [] key = "ic_lat_geod_deg" -> <<-90, 90>>
                   [] key = "ic_h_sl_ft" -> <<-1400, 85000>>
                   [] key = "ic_psi_true_deg" -> <<0, 360>>
                   [] key \in {"ic_u_fps", "ic_v_fps", "ic_w_fps"} -> <<-2200, 2200>>
                   [] key \in {"ic_p_rad_sec", "ic_q_rad_sec", "ic_r_rad_sec"} -> <<-6, 6>>
                   [] key = "ic_roc_fpm" -> <<-10000, 10000>>
                   [] OTHER -> <<0, 85000>>
    IN  [name_jsbsim |-> key, min |-> range[1], max |-> range[2],
         access |-> "RW", update |-> NoHook]

\* init_state mappings a caller supplies, as (key, value) in iteration order
InitStates ==
    { << >>,
      << <<"ic_psi_true_deg", 90>> >>,
      << <<"ic_h_sl_ft", 90000>>, <<"ic_roc_fpm", 6000>> >>,
      << <<"ic_roc_fpm", -6000>>, <<"ic_u_fps", 500>>,
         <<"ic_psi_true_deg", 450>> >> }

Origins == { Origin, <<119, 59, 100>> }

\* an optional argument: None, or a value
None == [given |-> FALSE, value |-> << >>]
Some(v) == [given |-> TRUE, value |-> v]

\* jsbsim.FGFDMExec(...) with the model loaded: nothing set, nothing solved
FGFDMExec(gen, num_engines) ==
    [gen |-> gen,
     store |-> [k \in ICKeys \cup StateKeys |-> 0],
     solves |-> 0,
     engines |-> [j \in 0..(num_engines - 1) |-> 0],
     steady |-> 0,
     runs |-> 0]

\* set_property_value on a store, for properties without update hook
SetValue(store, prop, value) ==
    [store EXCEPT ![prop.name_jsbsim] = Clamp(prop, value)]

RECURSIVE WriteAll(_, _)
WriteAll(store, kvs) ==
    IF kvs = << >> THEN store
    ELSE WriteAll(SetValue(store, Catalog(Head(kvs)[1]), Head(kvs)[2]),
                  Tail(kvs))

\* the overrides written before the defaults
ic_writes_defaults_last(defaults, init_state) == init_state \o defaults

\* the writes of reload() before the solve, in program order:
\* clear_defalut_condition(), then the loop over self.init_state.items()
ic_writes(defaults, init_state) == defaults \o init_state

\* jsbsim_exec.run_ic(), when it succeeds: the state properties follow from
\* the initial conditions (ft -> m, deg -> quarter turns, ft/min -> m/s)
run_ic(store) ==
    LET psi == store["ic_psi_true_deg"] \div 90
        u == (store["ic_u_fps"] * 3048) \div 10000
    IN  [store EXCEPT
           !["position_long_gc_deg"] = store["ic_long_gc_deg"],
           !["position_lat_geod_deg"] = store["ic_lat_geod_deg"],
           !["position_h_sl_m"] = (store["ic_h_sl_ft"] * 3048) \div 10000,
           !["attitude_roll_rad"] = 0,
           !["attitude_pitch_rad"] = 0,
           !["attitude_heading_true_rad"] = psi,
           !["velocities_v_north_mps"] = u * Cos(psi),
           !["velocities_v_east_mps"] = u * Sin(psi),
           !["velocities_v_down_mps"] = -((store["ic_roc_fpm"] * 508) \div 100000)]

\* jsbsim_exec.run(): one integration step moves the aircraft
fdm_run(store) ==
    [store EXCEPT
       !["position_long_gc_deg"] = @ + Sgn(store["velocities_v_east_mps"]),
       !["position_lat_geod_deg"] = @ + Sgn(store["velocities_v_north_mps"]),
       !["position_h_sl_m"] = @ - store["velocities_v_down_mps"]]

\* BaseSimulator.reload(): the cached state is zeroed
BaseSimulator_reload(a) ==
    [a EXCEPT !._geodetic = Zeros, !._position = Zeros,
              !._poseture = Zeros, !._velocity = Zeros]

\* the projection about the default origin, whatever origin the aircraft has
_update_properties_default_origin(a, store) ==
    LET geodetic == <<store["position_long_gc_deg"],
                      store["position_lat_geod_deg"],
                      store["position_h_sl_m"]>>
    IN  [a EXCEPT
           !._geodetic = geodetic,
           !._position = LLA2NEU(geodetic, Origin),
           !._poseture = <<store["attitude_roll_rad"],
                           store["attitude_pitch_rad"],
                           store["attitude_heading_true_rad"]>>,
           !._velocity = <<store["velocities_v_north_mps"],
                           store["velocities_v_east_mps"],
                           store["velocities_v_down_mps"]>>]

_update_properties(a, store) ==
    LET geodetic == <<store["position_long_gc_deg"],
                      store["position_lat_geod_deg"],
                      store["position_h_sl_m"]>>
    IN  [a EXCEPT
           !._geodetic = geodetic,
           !._position = LLA2NEU(geodetic, a.origin),
           !._poseture = <<store["attitude_roll_rad"],
                           store["attitude_pitch_rad"],
                           store["attitude_heading_true_rad"]>>,
           !._velocity = <<store["velocities_v_north_mps"],
                           store["velocities_v_east_mps"],
                           store["velocities_v_down_mps"]>>]

\* only engine 0 started
init_running_first(engines) ==
    [j \in DOMAIN engines |-> IF j = 0 THEN engines[j] + 1 ELSE engines[j]]

\* for j in range(n): propulsion.get_engine(j).init_running()
init_running(engines) == [j \in DOMAIN engines |-> engines[j] + 1]

\* the four cached arrays of an aircraft
cached(a) == <<a._geodetic, a._position, a._poseture, a._velocity>>

\* gen0, runs0, before: handle, run count and cached arrays when the call
\* was entered; atSolve: the ic_* values the FDM held when run_ic was called
NoLastA == [op |-> "none", err |-> "none", success |-> TRUE, phases |-> << >>,
            atSolve |-> [k \in ICKeys |-> 0], gen0 |-> 0, runs0 |-> 0,
            before |-> <<Zeros, Zeros, Zeros, Zeros>>]

\* reload(new_state, new_origin); success is what run_ic() returns.
\* The result is the aircraft, the handle and the record of the call.
AircraftSimulator_reload(a, f, new_state, new_origin, success) ==
    LET a0 == BaseSimulator_reload(a)
        handle == FGFDMExec(f.gen + 1, Cardinality(DOMAIN f.engines))
        a1 == [a0 EXCEPT
                 !.init_state = IF new_state.given THEN new_state.value ELSE @,
                 !.origin = IF new_origin.given THEN new_origin.value ELSE @]
        atSolve == WriteAll(handle.store,
                            ic_writes(default_condition, a1.init_state))
        solved == [handle EXCEPT
                     !.store = IF success THEN run_ic(atSolve) ELSE atSolve,
                     !.solves = @ + 1]
        started == [solved EXCEPT !.engines = init_running(@),
                                  !.steady = @ + 1]
        lst == [NoLastA EXCEPT !.op = "reload", !.success = success,
                               !.atSolve = [k \in ICKeys |-> atSolve[k]],
                               !.gen0 = f.gen, !.runs0 = f.runs,
                               !.before = cached(a)]
    IN  IF ~success
        THEN [aircraft |-> a1, fdm |-> solved,
              last |-> [lst EXCEPT
                          !.err = "RuntimeError",
                          !.phases = <<"FGFDMExec", "default_condition",
                                       "init_state", "run_ic">>]]
        ELSE [aircraft |-> _update_properties(a1, started.store),
              fdm |-> started,
              last |-> [lst EXCEPT
                          !.phases = <<"FGFDMExec", "default_condition",
                                       "init_state", "run_ic", "init_running",
                                       "get_steady_state",
                                       "_update_properties">>]]

\* run() with the cached state refreshed before the result is looked at
AircraftSimulator_run_refresh_first(a, f, result, moved) ==
    LET store == IF result \/ moved THEN fdm_run(f.store) ELSE f.store
        f1 == [f EXCEPT !.store = store, !.runs = @ + 1]
        lst == [NoLastA EXCEPT !.op = "run", !.success = result,
                               !.gen0 = f.gen, !.runs0 = f.runs,
                               !.before = cached(a)]
    IN  [aircraft |-> _update_properties(a, store), fdm |-> f1,
         last |-> IF ~result THEN [lst EXCEPT !.err = "RuntimeError"] ELSE lst]

\* run(); result is what jsbsim_exec.run() returns, moved tells whether a
\* step that reports failure has still changed the FDM state
AircraftSimulator_run(a, f, result, moved) ==
    LET store == IF result \/ moved THEN fdm_run(f.store) ELSE f.store
        f1 == [f EXCEPT !.store = store, !.runs = @ + 1]
        lst == [NoLastA EXCEPT !.op = "run", !.success = result,
                               !.gen0 = f.gen, !.runs0 = f.runs,
                               !.before = cached(a)]
    IN  IF ~result
        THEN [aircraft |-> a, fdm |-> f1,
              last |-> [lst EXCEPT !.err = "RuntimeError"]]
        ELSE [aircraft |-> _update_properties(a, store), fdm |-> f1,
              last |-> lst]

Reload ==
    /\ fdm.gen < MaxReloads
    /\ \E new_state \in {None} \cup { Some(s) : s \in InitStates },
          new_origin \in {None} \cup { Some(o) : o \in Origins },
          success \in BOOLEAN :
          LET r == AircraftSimulator_reload(aircraft, fdm, new_state,
                                            new_origin, success)
          IN  /\ aircraft' = r.aircraft
              /\ fdm' = r.fdm
              /\ lastA' = r.last
    /\ UNCHANGED <<propVars, missileVars, taskVars, headingVars>>

RunAircraft ==
    /\ fdm.runs < MaxRuns
    /\ \E result \in BOOLEAN, moved \in BOOLEAN :
          LET r == AircraftSimulator_run(aircraft, fdm, result, moved)
          IN  /\ aircraft' = r.aircraft
              /\ fdm' = r.fdm
              /\ lastA' = r.last
    /\ UNCHANGED <<propVars, missileVars, taskVars, headingVars>>

\* AircraftSimulator(init_state=..., origin=...) of a model with n engines:
\* BaseSimulator.__init__, then a reload() that succeeds
InitAircraft(init_state, org, n) ==
    LET blank == [_geodetic |-> Zeros, _position |-> Zeros,
                  _poseture |-> Zeros, _velocity |-> Zeros,
                  init_state |-> init_state, origin |-> org]
        r == AircraftSimulator_reload(blank, FGFDMExec(0, n), None, None, TRUE)
    IN  /\ aircraft = r.aircraft
        /\ fdm = r.fdm
        /\ lastA = r.last

-----------------------------------------------------------------------------
(* SingleCombatWithMissileTask (tasks/singlecombat_with_missle_task.py):    *)
(* the rule-based missile launch of step().  Angles are half degrees,       *)
(* distances metres; env.time_interval is the fraction num/den of a second. *)
(* An exception raised inside step() leaves step() and ends the episode:    *)
(* the next call on the task is reset().                                    *)

agent_ids == <<"A0100", "B0100">>
AgentSet == { agent_ids[i] : i \in DOMAIN agent_ids }

\* env.agents[agent_id].enemies[0]
Enemy(agent_id) == IF agent_id = "A0100" THEN "B0100" ELSE "A0100"

\* env.agents[agent_id]._color
Color(agent_id) == IF agent_id = "A0100" THEN "Red" ELSE "Blue"

max_attack_angle == 45          \* 22.5 degrees
max_attack_distance == 12000

\* env.time_interval, as <<num, den>>
TimeIntervals == { <<1, 1>>, <<1, 2>>, <<2, 1>> }

\* int(1 / env.time_interval)
maxlen_of(time_interval) == time_interval[2] \div time_interval[1]

\* what one agent's aircraft shows on a step
Inputs == [is_alive : BOOLEAN, attack_angle : {44, 45}, distance : {12000, 12001}]

NoMissile == [uid |-> << >>, color |-> "", model |-> "", status |-> "",
              parent |-> "", target |-> ""]

\* def create(parent, target, uid, missile_model), declared @classmethod:
\* the class itself is bound to the first parameter
create_params == <<"parent", "target", "uid", "missile_model">>

\* Python's binding of a call with npos positional arguments and the keyword
\* arguments kw to parameters that have no defaults
BindError(params, npos, kw) ==
    \/ \E i \in 1..npos : params[i] \in kw
    \/ \E i \in (npos + 1)..Len(params) : params[i] \notin kw
    \/ \E k \in kw : \A i \in DOMAIN params : params[i] # k

\* MissileSimulator.create(**kwargs).  When the arguments bind, parent is
\* the class MissileSimulator: parent.dt is the property object, not a
\* number, and the assertion on the timesteps fails.
create(kwargs) ==
    IF BindError(create_params, 1, DOMAIN kwargs)
    THEN [err |-> "TypeError", missile |-> NoMissile]
    ELSE [err |-> "AssertionError", missile |-> NoMissile]

\* deque.append on a deque(maxlen=maxlen)
deque_append(d, x, maxlen) ==
    IF maxlen = 0 THEN << >>
    ELSE IF Len(d) = maxlen THEN Append(Tail(d), x)
    ELSE Append(d, x)

\* np.sum of a deque of booleans
RECURSIVE np_sum(_)
np_sum(d) ==
    IF d = << >> THEN 0
    ELSE (IF Head(d) THEN 1 ELSE 0) + np_sum(Tail(d))

\* one locked step taken for a full window
shoot_flag_any_lock(is_alive, lock, maxlen, distance, remaining) ==
    /\ is_alive
    /\ np_sum(lock) >= (IF maxlen = 0 THEN 0 ELSE 1)
    /\ distance <= max_attack_distance
    /\ remaining > 0

shoot_flag(is_alive, lock, maxlen, distance, remaining) ==
    /\ is_alive
    /\ np_sum(lock) >= maxlen
    /\ distance <= max_attack_distance
    /\ remaining > 0

\* The body of the loop of step() for one agent.  st carries the task and
\* environment through the loop: remaining, lock, temp (the simulators
\* added), err, and for the properties shoot (agents whose shoot_flag held),
\* streak (consecutive steps with the angle below the maximum, up to
\* maxlen) and launches (missiles added per agent).
step_agent(st, agent_id, inp, maxlen) ==
    LET locked == inp.attack_angle < max_attack_angle
        lock == deque_append(st.lock[agent_id], locked, maxlen)
        flag == shoot_flag(inp.is_alive, lock, maxlen, inp.distance,
                           st.remaining[agent_id])
        made == create([parent |-> agent_id, target |-> Enemy(agent_id),
                        uid |-> <<agent_id, st.remaining[agent_id]>>])
        st1 == [st EXCEPT
                  !.lock[agent_id] = lock,
                  !.streak[agent_id] = IF ~locked THEN 0
                                       ELSE IF @ < maxlen THEN @ + 1 ELSE @,
                  !.shoot = IF flag THEN @ \cup {agent_id} ELSE @]
    IN  IF ~flag THEN st1
        ELSE IF made.err # "none" THEN [st1 EXCEPT !.err = made.err]
        ELSE [st1 EXCEPT !.temp = Append(@, made.missile),
                         !.remaining[agent_id] = @ - 1,
                         !.launches[agent_id] = @ + 1]

\* for agent_id in self.agent_ids: ...; an exception ends the loop
RECURSIVE step(_, _, _, _)
step(st, ids, inputs, maxlen) ==
    IF ids = << >> \/ st.err # "none" THEN st
    ELSE step(step_agent(st, Head(ids), inputs[Head(ids)], maxlen),
              Tail(ids), inputs, maxlen)

NoLastT == [op |-> "none", err |-> "none", shoot |-> {},
            inputs |-> [a \in AgentSet |->
                          [is_alive |-> FALSE, attack_angle |-> 0,
                           distance |-> 0]],
            remaining0 |-> [a \in AgentSet |-> 0], temp0 |-> 0]

NoHistT == [streak |-> [a \in AgentSet |-> 0],
            launches |-> [a \in AgentSet |-> 0]]

\* task.step(env)
Step ==
    /\ lastT.err = "none"
    /\ \E inputs \in [AgentSet -> Inputs] :
          LET st0 == [remaining |-> remaining_missiles, lock |-> lock_duration,
                      temp |-> env.temp_simulators, err |-> "none",
                      shoot |-> {}, streak |-> histT.streak,
                      launches |-> histT.launches]
              st == step(st0, agent_ids, inputs, maxlen_of(env.time_interval))
          IN  /\ remaining_missiles' = st.remaining
              /\ lock_duration' = st.lock
              /\ env' = [env EXCEPT !.temp_simulators = st.temp]
              /\ lastT' = [op |-> "step", err |-> st.err, shoot |-> st.shoot,
                           inputs |-> inputs, remaining0 |-> remaining_missiles,
                           temp0 |-> Len(env.temp_simulators)]
              /\ histT' = [streak |-> st.streak, launches |-> st.launches]
    /\ UNCHANGED <<propVars, missileVars, aircraftVars, headingVars>>

\* task.reset(env), with the environment reset for a new episode
reset ==
    /\ remaining_missiles' = [a \in AgentSet |-> env.missile[a]]
    /\ lock_duration' = [a \in AgentSet |-> << >>]
    /\ env' = [env EXCEPT !.temp_simulators = << >>]
    /\ lastT' = [NoLastT EXCEPT !.op = "reset"]
    /\ histT' = NoHistT

Reset ==
    /\ lastT.op # "reset"
    /\ reset
    /\ UNCHANGED <<propVars, missileVars, aircraftVars, headingVars>>

\* the task after its first reset(env), for an environment configured with
\* missile[a] missiles for agent a
InitTask(missile, time_interval) ==
    /\ env = [missile |-> missile, time_interval |-> time_interval,
              temp_simulators |-> << >>]
    /\ remaining_missiles = missile
    /\ lock_duration = [a \in AgentSet |-> << >>]
    /\ lastT = [NoLastT EXCEPT !.op = "reset"]
    /\ histT = NoHistT

-----------------------------------------------------------------------------
(* UnreachHeading (termination_conditions/unreach_heading.py): the heading  *)
(* check of get_termination against the properties of one aircraft.        *)
(* Increments are tenths, headings degrees, altitudes feet; the simulation *)
(* time and the check interval are whole time units.  An exception raised  *)
(* in get_termination, or done = True, ends the episode.                   *)

\* self.increment_size, in tenths; Python indexes it from 0
increment_size == <<2, 4, 6, 8, 10, 10>>

\* aircraft_config[...] read by __init__
max_heading_increment == 180
max_altitude_increment == 7000
max_velocities_u_increment == 100
CheckIntervals == {1, 2}

\* the Properties get_termination reads and writes, with their ranges
HeadingCatalog(key) ==
    LET range == CASE key = "target_heading_deg" -> <<0, 360>>
                   [] key = "target_altitude_ft" -> <<-1400, 85000>>
                   [] key = "target_velocities_u_mps" -> <<-2200, 2200>>
                   [] key = "heading_check_time" -> <<0, 1000000>>
                   [] OTHER -> <<0, 1000000>>
    IN  [name_jsbsim |-> key, min |-> range[1], max |-> range[2],
         access |-> "RW", update |-> NoHook]

\* values of the derived property delta_heading at a call
DeltaHeadings == {-11, -10, 0, 10, 11}

\* the three draws of np.random.uniform(-delta, delta), each at an end of
\* the interval: the signs for heading, altitude and velocity
Draws == { <<-1, 1, -1>>, <<1, -1, 1>> }

\* the target heading taken as reached at 10 degrees and above only
unreached_ge(delta_heading) == Abs(delta_heading) >= 10

\* math.fabs(delta_heading) > 10
unreached(delta_heading) == Abs(delta_heading) > 10

\* the target properties and the check time of an aircraft
targets(a) == <<a["target_heading_deg"], a["target_altitude_ft"],
                a["target_velocities_u_mps"], a["heading_check_time"]>>

NoLastH == [op |-> "none", err |-> "none", done |-> FALSE, success |-> FALSE,
            time |-> 0, check_time |-> 0, delta_heading |-> 0,
            before |-> <<0, 0, 0, 0>>, counts0 |-> 0, info |-> FALSE]

\* get_termination for the aircraft a (its property store) when
\* env.heading_turn_counts is counts, the derived delta_heading reads
\* delta_heading and the three random draws are u * delta (heading,
\* altitude, velocity).  The result is the store, the counter and the record of the
\* call: done, success, and info (whether the end reason was written).
get_termination(a, counts, interval, delta_heading, u) ==
    LET check_time == a["heading_check_time"]
        time == a["simulation_sim_time_sec"]
        lst == [NoLastH EXCEPT !.op = "get_termination", !.time = time,
                               !.check_time = check_time,
                               !.delta_heading = delta_heading,
                               !.before = targets(a), !.counts0 = counts]
        same == [agent |-> a, counts |-> counts, last |-> lst]
    IN  IF time >= check_time
        THEN IF unreached(delta_heading)
             THEN [same EXCEPT !.last.done = TRUE, !.last.info = TRUE]
             ELSE IF counts + 1 \notin DOMAIN increment_size
             THEN [same EXCEPT !.last.err = "IndexError"]
             ELSE LET delta == increment_size[counts + 1]
                      d_heading == (u[1] * delta * max_heading_increment) \div 10
                      d_altitude == (u[2] * delta * max_altitude_increment) \div 10
                      d_velocities_u ==
                          (u[3] * delta * max_velocities_u_increment) \div 10
                      new_heading ==
                          (a["target_heading_deg"] + d_heading + 360) % 360
                      new_altitude == a["target_altitude_ft"] + d_altitude
                      new_velocities_u ==
                          a["target_velocities_u_mps"] + d_velocities_u
                      a1 == SetValue(a, HeadingCatalog("target_heading_deg"),
                                     new_heading)
                      a2 == SetValue(a1, HeadingCatalog("target_altitude_ft"),
                                     new_altitude)
                      a3 == SetValue(a2,
                                     HeadingCatalog("target_velocities_u_mps"),
                                     new_velocities_u)
                      a4 == SetValue(a3, HeadingCatalog("heading_check_time"),
                                     check_time + interval)
                  IN  [agent |-> a4, counts |-> counts + 1, last |-> lst]
        ELSE same

GetTermination ==
    /\ lastH.err = "none" /\ ~lastH.done
    /\ \E delta_heading \in DeltaHeadings,
          u \in Draws :
          LET r == get_termination(agent, heading_turn_counts, check_interval,
                                   delta_heading, u)
          IN  /\ agent' = r.agent
              /\ heading_turn_counts' = r.counts
              /\ lastH' = r.last
    /\ UNCHANGED <<check_interval, propVars, missileVars, aircraftVars,
                   taskVars>>

\* the simulation moves on by one time unit
Tick ==
    /\ agent["simulation_sim_time_sec"] < MaxTime
    /\ agent' = [agent EXCEPT !["simulation_sim_time_sec"] = @ + 1]
    /\ UNCHANGED <<heading_turn_counts, check_interval, lastH, propVars,
                   missileVars, aircraftVars, taskVars>>

\* the start of an episode: no turn yet, the first check one interval ahead
InitHeading(interval) ==
    /\ check_interval = interval
    /\ agent = [simulation_sim_time_sec |-> 0, heading_check_time |-> interval,
                target_heading_deg |-> 0, target_altitude_ft |-> 20000,
                target_velocities_u_mps |-> 240]
    /\ heading_turn_counts = 0
    /\ lastH = NoLastH

-----------------------------------------------------------------------------
(* Specifications *)

InitProps ==
    /\ jsbsim_exec = [n \in Names |-> 1]
    /\ live = 0
    /\ call = NoCall

\* MissileSimulator.__init__ on top of BaseSimulator.__init__
InitMissile ==
    /\ _status = ""
    /\ _t = 0
    /\ _m = 0
    /\ _position = Zeros
    /\ _geodetic = Zeros
    /\ _velocity = Zeros
    /\ _poseture = Zeros
    /\ nan = 0
    /\ origin = Zeros
    /\ render_explosion = FALSE
    /\ last = NoLast
    /\ hist = NoHist

\* property access of one aircraft
Init ==
    /\ InitProps
    /\ InitMissile
    /\ target_aircraft = CHOOSE tgt \in Targets : TRUE
    /\ InitAircraft(<< >>, Origin, 1)
    /\ InitTask([a \in AgentSet |-> 1], <<1, 1>>)
    /\ InitHeading(1)

Next == SetProperty \/ GetProperty \/ SimAdvance

Spec == Init /\ [][Next]_vars

\* one missile and its target
InitM ==
    /\ InitProps
    /\ InitMissile
    /\ target_aircraft \in Targets
    /\ InitAircraft(<< >>, Origin, 1)
    /\ InitTask([a \in AgentSet |-> 1], <<1, 1>>)
    /\ InitHeading(1)

NextM == Launch \/ RunUnlaunched \/ Run \/ Log

SpecM == InitM /\ [][NextM]_vars

\* one aircraft, reloaded and run
InitA ==
    /\ InitProps
    /\ InitMissile
    /\ target_aircraft = CHOOSE tgt \in Targets : TRUE
    /\ \E init_state \in InitStates, org \in Origins, n \in 1..MaxEngines :
          InitAircraft(init_state, org, n)
    /\ InitTask([a \in AgentSet |-> 1], <<1, 1>>)
    /\ InitHeading(1)

NextA == Reload \/ RunAircraft

SpecA == InitA /\ [][NextA]_vars

\* one task over two agents
InitT ==
    /\ InitProps
    /\ InitMissile
    /\ target_aircraft = CHOOSE tgt \in Targets : TRUE
    /\ InitAircraft(<< >>, Origin, 1)
    /\ \E missile \in [AgentSet -> 0..MaxMissiles],
          time_interval \in TimeIntervals :
          InitTask(missile, time_interval)
    /\ InitHeading(1)

NextT == Step \/ Reset

SpecT == InitT /\ [][NextT]_vars

\* one aircraft under the heading check
InitH ==
    /\ InitProps
    /\ InitMissile
    /\ target_aircraft = CHOOSE tgt \in Targets : TRUE
    /\ InitAircraft(<< >>, Origin, 1)
    /\ InitTask([a \in AgentSet |-> 1], <<1, 1>>)
    /\ \E interval \in CheckIntervals : InitHeading(interval)

NextH == GetTermination \/ Tick

SpecH == InitH /\ [][NextH]_vars

-----------------------------------------------------------------------------
(* Properties of the property access (Spec) *)

PropOf(name) == CHOOSE p \in Properties : p.name_jsbsim = name

\* C1: set_property_value(p, v) on a Property raises nothing and writes to
\* the store p.min when v < p.min, p.max when v > p.max and v otherwise: the
\* value written lies in [p.min, p.max] and is never an out-of-range v.
C1_ClampOnWrite ==
    (call.op = "set" /\ call.prop \in Names) =>
        LET p == PropOf(call.prop)
            v == call.value
        IN  /\ call.err = "none"
            /\ v < p.min => call.wrote = p.min
            /\ v > p.max => call.wrote = p.max
            /\ (p.min <= v /\ v <= p.max) => call.wrote = v
            /\ p.min <= call.wrote /\ call.wrote <= p.max
            /\ p.update # p.name_jsbsim => jsbsim_exec[p.name_jsbsim] = call.wrote

C1_Witness ==
    /\ call.op = "set" /\ call.prop \in Names
    /\ call.value > PropOf(call.prop).max
    /\ call.wrote = PropOf(call.prop).max
    /\ jsbsim_exec[call.prop] = PropOf(call.prop).max

\* C2: set_property_value on a property without Write access fails with
\* ReadOnly and writes nothing to the store.
C2_ReadOnlyRejected ==
    (call.op = "set" /\ call.prop \in Names /\ ~HasW(PropOf(call.prop).access)) =>
        (call.err = "ReadOnly" /\ call.wrote = -1)

\* C3: get_property_value on a property whose access contains Read (read-only
\* or read-write) and that has an update hook runs the hook exactly once,
\* before the store is read, so that the value returned is the recomputed one.
C3_HookOnRead ==
    (/\ call.op = "get" /\ call.prop \in Names
     /\ PropOf(call.prop).access \in {"R", "RW"}
     /\ PropOf(call.prop).update # NoHook) =>
        /\ call.hooks = 1
        /\ call.hookFirst
        /\ PropOf(call.prop).update = call.prop => call.ret = live

-----------------------------------------------------------------------------
(* Properties of the missile (SpecM) *)

Terminal == {"Hit", "Inactive"}

flightState == <<_position, _geodetic, _velocity, _poseture, nan, _m>>

\* C4: Hit and Inactive are terminal, and the only changes of status are
\* unlaunched -> Launched, Launched -> Hit and Launched -> Inactive.
C4_TerminalStatuses ==
    [][/\ _status \in Terminal => _status' = _status
       /\ _status' # _status =>
             <<_status, _status'>> \in {<<"", "Launched">>, <<"Launched", "Hit">>,
                                        <<"Launched", "Inactive">>}]_vars

\* C5: once the status is Hit or Inactive, run() leaves position, geodetic,
\* velocity, attitude and mass unchanged.
C5_FrozenAfterTermination ==
    [][(_status \in Terminal) => UNCHANGED flightState]_vars

\* C6: while the target closes monotonically from beyond Rc, the status
\* becomes Hit on the first tick whose true distance is strictly below Rc and
\* on no earlier tick; a distance of exactly Rc is not a hit.
C6_HitAtFirstInside ==
    hist.closing =>
        /\ hist.firstHit = hist.firstInside
        /\ (last.op = "run" /\ hist.d2 >= Rc * Rc) => (~last.hit /\ _status # "Hit")
        /\ (last.op = "run" /\ hist.d2 < Rc * Rc) => (last.hit /\ _status = "Hit")

C6_Witness ==
    /\ hist.closing
    /\ _status = "Hit" /\ last.op = "run" /\ last.status = "Launched"
    /\ hist.firstHit > 1
    /\ hist.firstHit = hist.runs

\* C7: a launched missile whose target never comes within Rc is Launched
\* after every tick whose clock is <= t_max and Inactive from the first tick
\* whose clock is > t_max (tick t_max * FREQ + 1 = 361); a tick on which both
\* the hit test and the timeout hold ends in Hit.
C7_Timeout ==
    /\ (_status # "" /\ hist.firstInside = 0) =>
          /\ hist.runs <= t_max * FREQ => _status = "Launched"
          /\ hist.runs > t_max * FREQ => _status = "Inactive"
          /\ _t = hist.runs
    /\ (last.op = "run" /\ last.hit /\ _t > t_max * FREQ) => _status = "Hit"

C7_Witness ==
    /\ hist.firstInside = 0
    /\ hist.runs = t_max * FREQ + 1
    /\ _status = "Inactive" /\ last.op = "run" /\ last.status = "Launched"

\* C8 as stated: after n calls of run() the mass is m0 - n*dt*dm, whatever
\* happened on those ticks.
C8_MassAfterNTicks ==
    _status # "" => _m = m0 * FREQ - hist.runs * dm

\* C8 amended: the mass is m0 - k*dt*dm, k the number of ticks on which the
\* target was not within Rc and the clock had not passed t_max; k = n until
\* the first tick that hits or times out.
C8_MassAfterQuietTicks ==
    _status # "" =>
        /\ _m = m0 * FREQ - hist.quiet * dm
        /\ (hist.firstInside = 0 /\ _t <= t_max * FREQ) =>
              _m = m0 * FREQ - hist.runs * dm

C8_Witness ==
    /\ _status = "Hit" /\ last.op = "run" /\ last.hit
    /\ hist.quiet > 0 /\ hist.quiet < hist.runs
    /\ _m = m0 * FREQ - hist.quiet * dm

\* C9: of two log() calls after the transition to Hit, the first returns the
\* removal marker and the explosion line and sets the render-once flag, the
\* second returns normally and emits nothing.
C9_LogTwiceAfterHit ==
    (last.op = "log" /\ last.status = "Hit") =>
        /\ (hist.hitLogs = 1 /\ ~last.flag) =>
              (last.out = "explosion" /\ last.err = "none" /\ render_explosion)
        /\ hist.hitLogs = 2 => (last.out # "explosion" /\ last.err = "none")

\* C10: log() returns the state line and keeps the flag when Launched, and
\* returns the explosion marker only when Hit or Inactive; an unlaunched
\* missile never gets an explosion marker or the flag from log().
C10_LogByStatus ==
    last.op = "log" =>
        /\ last.status = "Launched" =>
              (last.out = "state" /\ render_explosion = last.flag)
        /\ last.out = "explosion" => last.status \in Terminal
        /\ last.status = "" => (last.out # "explosion" /\ ~render_explosion)

\* C11: after launch(parent) the geodetic, position and velocity are the
\* parent's, pitch and yaw are the parent's and roll is 0, the origin is the
\* parent's, the clock is 0, the mass is m0 and the status is Launched; the
\* roll is 0 after every later run().
C11_LaunchCopiesParent ==
    /\ last.op = "launch" =>
          /\ _geodetic = last.parent.geodetic
          /\ _position = last.parent.position
          /\ _velocity = last.parent.velocity
          /\ _poseture = <<0, last.parent.rpy[2], last.parent.rpy[3]>>
          /\ origin = last.parent.origin
          /\ _t = 0
          /\ _m = m0 * FREQ
          /\ _status = "Launched"
    /\ _status # "" => _poseture[1] = 0

C11_Witness ==
    /\ last.op = "launch"
    /\ last.parent.rpy[1] # 0
    /\ _poseture = <<0, last.parent.rpy[2], last.parent.rpy[3]>>
    /\ _velocity = last.parent.velocity /\ _velocity # Zeros

\* C18 as stated: in an integration step the velocity is integrated first and
\* the position is advanced by dt times the velocity resulting from that
\* step, and the geodetic is derived from the new position.
C18_PositionFromNewVelocity ==
    (last.op = "run" /\ last.stepped /\ nan = 0) =>
        /\ _position = Add(last.pos0, _velocity)
        /\ _geodetic = NEU2LLA(_position, origin)

\* C18 amended: in an integration step the position is advanced first, by dt
\* times the velocity held when the step began, the geodetic is derived from
\* the new position, and the velocity is integrated afterwards.
C18_PositionFromOldVelocity ==
    (last.op = "run" /\ last.stepped /\ nan < 2) =>
        /\ _position = Add(last.pos0, last.vel0)
        /\ _geodetic = NEU2LLA(_position, origin)

C18_Witness ==
    /\ last.op = "run" /\ last.stepped /\ nan = 0
    /\ _velocity # last.vel0
    /\ _position = Add(last.pos0, last.vel0)
    /\ _position # Add(last.pos0, _velocity)

\* C24: after any number of run() calls on a launched missile, calls after
\* Hit or Inactive included, the mass is at least m0 - dm * min(clock, t_max),
\* hence never below m0 - t_max * dm = 30 kg, and strictly positive.
C24_MassFloor ==
    _status # "" =>
        /\ _m >= m0 * FREQ - dm * (IF _t <= t_max * FREQ THEN _t
                                   ELSE t_max * FREQ)
        /\ _m >= (m0 - t_max * dm) * FREQ
        /\ _m > 0

C24_Witness ==
    /\ _status = "Inactive" /\ last.op = "run"
    /\ hist.runs > t_max * FREQ + 1
    /\ _m = (m0 - t_max * dm) * FREQ

-----------------------------------------------------------------------------
(* Properties of the aircraft (SpecA) *)

\* the value the mapping init_state holds for key (keys are distinct)
ValueOf(init_state, key) ==
    LET i == CHOOSE j \in DOMAIN init_state : init_state[j][1] = key
    IN  init_state[i][2]

KeysOf(init_state) == { init_state[i][1] : i \in DOMAIN init_state }

\* what _update_properties reads: the FDM's values of the named properties
fdmGeodetic == <<fdm.store["position_long_gc_deg"],
                 fdm.store["position_lat_geod_deg"],
                 fdm.store["position_h_sl_m"]>>
fdmAttitude == <<fdm.store["attitude_roll_rad"],
                 fdm.store["attitude_pitch_rad"],
                 fdm.store["attitude_heading_true_rad"]>>
fdmVelocity == <<fdm.store["velocities_v_north_mps"],
                 fdm.store["velocities_v_east_mps"],
                 fdm.store["velocities_v_down_mps"]>>

C13_CacheIsFdmState ==
    (lastA.op \in {"reload", "run"} /\ lastA.err = "none") =>
        /\ aircraft._geodetic = fdmGeodetic
        /\ aircraft._poseture = fdmAttitude
        /\ aircraft._velocity = fdmVelocity
        /\ aircraft._position = LLA2NEU(fdmGeodetic, aircraft.origin)

C13_Witness ==
    /\ lastA.op = "reload" /\ lastA.err = "none" /\ fdm.runs = 0
    /\ lastA.gen0 > 0
    /\ aircraft.init_state = << <<"ic_psi_true_deg", 90>> >>
    /\ aircraft.origin # Origin
    /\ aircraft._poseture[3] = 1
    /\ aircraft._position = LLA2NEU(fdmGeodetic, aircraft.origin)

\* C14: after every completed operation on an entity (construction, reload
\* whether it succeeds or fails, run) its position is the NEU projection of
\* its geodetic about its recorded origin.
C14_PositionIsProjection ==
    aircraft._position = LLA2NEU(aircraft._geodetic, aircraft.origin)

\* C15: after a state refresh the third component of the aircraft's velocity
\* is the upward speed, the negation of the FDM's downward velocity.
C15_VelocityUp ==
    (lastA.op \in {"reload", "run"} /\ lastA.err = "none") =>
        aircraft._velocity[3] = -fdm.store["velocities_v_down_mps"]

\* C16: reload() takes a fresh FDM handle, writes the defaults, then the
\* caller's initial conditions in iteration order, then solves, then starts
\* the engines, then refreshes the cache; at the solve a key of init_state
\* holds its clamped override and every other key its default.
C16_ReloadOrder ==
    lastA.op = "reload" =>
        /\ fdm.gen = lastA.gen0 + 1
        /\ fdm.runs = 0
        /\ \A i \in DOMAIN default_condition :
              LET key == default_condition[i][1]
              IN  lastA.atSolve[key] =
                     IF key \in KeysOf(aircraft.init_state)
                     THEN Clamp(Catalog(key), ValueOf(aircraft.init_state, key))
                     ELSE default_condition[i][2]
        /\ lastA.success =>
              /\ lastA.phases = <<"FGFDMExec", "default_condition", "init_state",
                                  "run_ic", "init_running", "get_steady_state",
                                  "_update_properties">>
              /\ \A key \in ICKeys : fdm.store[key] = lastA.atSolve[key]
              /\ aircraft._geodetic = fdmGeodetic

C16_Witness ==
    /\ lastA.op = "reload" /\ lastA.success /\ lastA.gen0 > 0
    /\ lastA.atSolve["ic_h_sl_ft"] = 85000
    /\ lastA.atSolve["ic_roc_fpm"] = 6000
    /\ lastA.atSolve["ic_psi_true_deg"] = 0
    /\ aircraft._geodetic[3] = 25908

\* C17: when the solve fails reload() raises, the solve has run once, no
\* engine is started and the cache is the zeros set at the start of reload();
\* when it succeeds every engine is started exactly once.
C17_SolveFailure ==
    lastA.op = "reload" =>
        /\ fdm.solves = 1
        /\ ~lastA.success =>
              /\ lastA.err = "RuntimeError"
              /\ \A j \in DOMAIN fdm.engines : fdm.engines[j] = 0
              /\ fdm.steady = 0
              /\ cached(aircraft) = <<Zeros, Zeros, Zeros, Zeros>>
        /\ lastA.success =>
              /\ lastA.err = "none"
              /\ \A j \in DOMAIN fdm.engines : fdm.engines[j] = 1

C17_Witness ==
    /\ lastA.op = "reload" /\ ~lastA.success /\ lastA.err = "RuntimeError"
    /\ lastA.before # <<Zeros, Zeros, Zeros, Zeros>>
    /\ cached(aircraft) = <<Zeros, Zeros, Zeros, Zeros>>
    /\ fdm.store["ic_long_gc_deg"] = 120
    /\ Cardinality(DOMAIN fdm.engines) = 2
    /\ \A j \in DOMAIN fdm.engines : fdm.engines[j] = 0

-----------------------------------------------------------------------------
(* Properties of the task (SpecT) *)

\* C19: when step() finds the shoot condition true for an agent,
\* MissileSimulator.create(parent=agent, target=enemy, uid=...) completes
\* without error, a Launched missile of the parent's color with the enemy as
\* target is added to the environment, and the agent's remaining_missiles
\* is one less.
C19_ShootCreatesMissile ==
    lastT.op = "step" =>
        \A a \in lastT.shoot :
            /\ lastT.err = "none"
            /\ remaining_missiles[a] = lastT.remaining0[a] - 1
            /\ \E i \in DOMAIN env.temp_simulators :
                  /\ i > lastT.temp0
                  /\ env.temp_simulators[i].status = "Launched"
                  /\ env.temp_simulators[i].color = Color(a)
                  /\ env.temp_simulators[i].parent = a
                  /\ env.temp_simulators[i].target = Enemy(a)

\* C20: an agent attempts a launch on a step only if it is alive, its attack
\* angle was below 22.5 degrees on each of the last maxlen steps, the
\* distance is <= 12000 m and it has a missile left; remaining_missiles is
\* never negative and an agent never launches more missiles than configured.
C20_ShootOnlyWhenLocked ==
    /\ lastT.op = "step" =>
          \A a \in lastT.shoot :
              /\ lastT.inputs[a].is_alive
              /\ histT.streak[a] >= maxlen_of(env.time_interval)
              /\ lastT.inputs[a].distance <= 12000
              /\ lastT.remaining0[a] > 0
    /\ \A a \in AgentSet :
          /\ remaining_missiles[a] >= 0
          /\ histT.launches[a] <= env.missile[a]

C20_Witness ==
    /\ lastT.op = "step"
    /\ maxlen_of(env.time_interval) = 2
    /\ \E a \in lastT.shoot :
          /\ lastT.inputs[a].is_alive
          /\ histT.streak[a] = 2
          /\ lock_duration[a] = <<TRUE, TRUE>>
          /\ lastT.inputs[a].distance = 12000
          /\ lastT.remaining0[a] > 0

-----------------------------------------------------------------------------
(* Properties of the heading check (SpecH) *)

\* the check is due and the target heading is reached
reached == /\ lastH.time >= lastH.check_time
           /\ Abs(lastH.delta_heading) <= 10

\* C21: get_termination returns done = True exactly when the simulation time
\* is >= heading_check_time and |delta_heading| > 10, and success = False
\* always; with done = True the target properties, heading_check_time and
\* heading_turn_counts are as before the call.
C21_DoneWhenUnreached ==
    (lastH.op = "get_termination" /\ lastH.err = "none") =>
        /\ lastH.done <=> (/\ lastH.time >= lastH.check_time
                           /\ Abs(lastH.delta_heading) > 10)
        /\ ~lastH.success
        /\ lastH.done => (/\ targets(agent) = lastH.before
                          /\ heading_turn_counts = lastH.counts0)

C21_Witness ==
    /\ lastH.op = "get_termination" /\ lastH.done /\ ~lastH.success
    /\ lastH.delta_heading = -11
    /\ lastH.counts0 > 0
    /\ targets(agent) = lastH.before
    /\ heading_turn_counts = lastH.counts0

\* C22: get_termination changes state only when the check is due and the
\* target heading is reached: then the new target heading lies in [0, 360),
\* heading_check_time is check_interval later and heading_turn_counts is
\* one more; otherwise target heading, altitude, velocity, check time and
\* turn counts are as before the call.
C22_TurnWhenReached ==
    lastH.op = "get_termination" =>
        IF reached
        THEN /\ 0 <= agent["target_heading_deg"]
             /\ agent["target_heading_deg"] < 360
             /\ agent["heading_check_time"] = lastH.check_time + check_interval
             /\ heading_turn_counts = lastH.counts0 + 1
        ELSE /\ targets(agent) = lastH.before
             /\ heading_turn_counts = lastH.counts0

\* C23: whenever heading_turn_counts picks the increment it is an index of
\* the 6-entry increment_size, 0 <= heading_turn_counts <= 5, and the check
\* does not fail with an index out of range.
C23_TurnCountsInRange ==
    (lastH.op = "get_termination" /\ reached) =>
        /\ 0 <= lastH.counts0 /\ lastH.counts0 <= 5
        /\ lastH.err = "none"

====
